---- MODULE Spec2Model ----
(***************************************************************************)
(* Model of kowalski's ZTF alert ingester (alert_watcher_ztf.py):          *)
(* the supervisor `ingester`, the per-topic worker `listener`, the broker  *)
(* callbacks of AlertConsumer and the per-record pipeline of               *)
(* AlertConsumer.poll, run against a shared document store.                *)
(***************************************************************************)
EXTENDS Integers, Sequences, FiniteSets, TLC

VARIABLES
    broker,                      \* topic -> partition -> messages (sequences of records)
    topics,                      \* the topics that kafka-topics.sh lists
    obs_date,                    \* ingester(obs_date=...): None, or a date
    utcnow,                      \* today's date (UTC), as datetime.utcnow() gives it
    filters,                     \* the collection of filter templates, in natural order
    filter_templates,            \* per topic: AlertConsumer.filter_templates
    call,                        \* arguments of the running call of alert_filter__user_defined
    passed_filters,              \* its local passed_filters when it returns
    test,                        \* ingester(test=...): test stream, single pass
    save_packets,                \* ingester(save_packets=...)
    post_to_skyportal,           \* config['misc']['post_to_skyportal']
    sup_pc,                      \* supervisor position: "list" | "iter" | "done"
    sup_todo,                    \* topics of topics_tonight not yet visited in this pass
    topics_on_watch,             \* ingester's dict, as the set of its keys
    datestr,                     \* ingester's datestr of the current pass
    sup_failures,                \* exceptions caught by ingester's loop so far
    pc,                          \* per topic: position of its worker process
    msg,                         \* per topic: <<partition, offset>> of the polled message
    idx,                         \* per topic: index of the current record in msg
    offset,                      \* per topic, per partition: next offset to fetch
    assigned,                    \* per topic: partitions handed to on_assign so far
    num_partitions,              \* AlertConsumer.num_partitions
    num_disconnected_partitions, \* AlertConsumer.num_disconnected_partitions
    eop,                         \* per topic: partitions that signaled end-of-partition
    disc,                        \* per topic: partitions whose disconnect was reported
    alerts,                      \* primary collection: document -> number of copies
    aux,                         \* aux collection: _id (objectId) -> document
    avro_files,                  \* <path_alerts>/<datestr>/<candid>.avro -> message bytes
    tess_files,                  \* <path_tess>/<datestr>/<candid>.json -> dumped alert
    portal,                      \* candids posted to the follow-up portal
    okrec,                       \* per topic: no store write of the current record failed
    ingested,                    \* candids whose record some worker processed to the end
    resources,                   \* per topic: the worker's broker consumer and catalog client
    xcall,                       \* arguments of the running call of alert_filter__xmatch
    xmatches,                    \* its local xmatches when it returns
    mcall,                       \* the running call of alert_mongify: argument and result
    request,                     \* the HTTP request being served: headers, user, route
    response                     \* the response to it, and whether the handler body ran

vars == <<broker, topics, obs_date, utcnow, filters, filter_templates, call,
          passed_filters, test, save_packets, post_to_skyportal,
          sup_pc, sup_todo, topics_on_watch, datestr, sup_failures,
          pc, msg, idx, offset, assigned, num_partitions,
          num_disconnected_partitions, eop, disc, alerts, aux, avro_files,
          tess_files, portal, okrec, ingested, resources, xcall, xmatches,
          mcall, request, response>>

supervisor_vars == <<sup_pc, sup_todo, topics_on_watch, datestr, sup_failures>>

config_vars == <<broker, topics, obs_date, utcnow, filters, test, save_packets,
                 post_to_skyportal>>

filter_vars == <<filter_templates, call, passed_filters>>

consumer_vars == <<offset, assigned, num_partitions, num_disconnected_partitions, eop, disc>>

store_vars == <<alerts, aux>>

file_vars == <<avro_files, tess_files>>

xmatch_vars == <<xcall, xmatches>>

web_vars == <<request, response>>

(***************************************************************************)
(* Bounds of the model.                                                    *)
(***************************************************************************)
\* cap on the disconnect counter, which the code never resets
MaxDisconnects == 2

\* cap on the number of exceptions that ingester's loop catches
MaxSupFailures == 1

\* greatest number of filter templates in the collection, and of filters
\* handed to alert_filter__user_defined
MaxTemplates == 2

(***************************************************************************)
(* Broker content.                                                         *)
(***************************************************************************)
Null == -1

\* broker error code tested by error_cb
DISCONNECT == -195

\* the codes error_cb tells apart: the disconnect, and any other (here 0)
ErrorCodes == {DISCONNECT, 0}

CLU == "CLU_20190625"

\* a prior candidate as it arrives: all schema keys present, some null
PrvCandidate(c, m, n) == [candid |-> c, magpsf |-> m, nid |-> n]

R1 == [candid |-> 1, objectId |-> "A", programpi |-> "ZTF",
       prv_candidates |-> <<PrvCandidate(9, 1, Null)>>]

R2 == [candid |-> 2, objectId |-> "A", programpi |-> "TESS",
       prv_candidates |-> <<PrvCandidate(9, 2, 7)>>]

Topics == {"t1", "t2", "t3", "t4"}

\* obs_date=None
None == "None"

\* the names of the topics, as sequences of pieces of text; no piece occurs
\* inside another or across two neighbours
TopicName(t) ==
    CASE t = "t1" -> <<"ztf", "_", "20200101", "_", "programid", "1">>
      [] t = "t2" -> <<"ztf", "_", "20200101", "_", "programid", "2">>
      [] t = "t3" -> <<"programid", "1", "_", "ztf", "_", "20200101">>
      [] t = "t4" -> <<"ztf", "_", "20200101", "_", "programid", "1", "_", "zuds">>

\* `piece in name`, python's substring test
In(piece, name) == \E i \in 1..Len(name) : name[i] = piece

\* name.split('_')
RECURSIVE Split(_)
Split(name) ==
    IF name = <<>> THEN << <<>> >>
    ELSE LET rest == Split(Tail(name))
         IN  IF Head(name) = "_" THEN << <<>> >> \o rest
             ELSE << <<Head(name)>> \o Head(rest) >> \o Tail(rest)

\* the partitions of topic t
Partitions(t) == DOMAIN broker[t]

\* datetime.datetime.utcnow().strftime('%Y%m%d') unless obs_date is given
Datestr == IF obs_date = None THEN utcnow ELSE obs_date

\* the test of the topics_tonight comprehension
Tonight(t, ds) ==
    /\ In(ds, TopicName(t))
    /\ In("programid", TopicName(t))
    /\ ~In("zuds", TopicName(t))

\* topics_tonight: the listed topics that pass the test for the date ds
TopicsTonight(ds) == {t \in topics : Tonight(t, ds)}

\* listener's datestr = topic.split('_')[1]
ListenerDatestr(t) == Split(TopicName(t))[2]

AllRecords == {R1, R2}

NoMsg == <<>>

\* a collection or directory with nothing in it
EmptyMap == [x \in {} |-> {}]

\* the map m with key k set to v (insert or overwrite)
Put(m, k, v) == [x \in DOMAIN m \cup {k} |-> IF x = k THEN v ELSE m[x]]

\* what a worker process holds before AlertConsumer.__init__ runs
NoResources == [consumer |-> "none", client |-> "none"]

\* what AlertConsumer.__init__ has opened when it returns or raises: the
\* consumer of confluent_kafka.Consumer(**kwargs), subscribed, then the
\* MongoClient of connect_to_db, kept in self.db only when `connected`;
\* nothing in the module calls close on either
Opened(connected) ==
    [consumer |-> "open", client |-> IF connected THEN "open" ELSE "none"]

\* no call of alert_mongify is running
NoMcall == [running |-> FALSE]

\* no call of alert_filter__xmatch is running
NoXcall == [running |-> FALSE]

\* no request is being served
NoRequest == [stage |-> "idle"]

NoResponse == [status |-> 0, by |-> "nobody", error |-> "None", user |-> "None"]

(***************************************************************************)
(* Pure helpers of the pipeline.                                           *)
(***************************************************************************)
\* Python's None where a list of prior candidates is expected
NoneList == <<[none |-> TRUE]>>

\* alert_mongify: doc = dict(alert); doc['prv_candidates'] is read (KeyError
\* when the key is missing), popped from doc, and None becomes []; the
\* document and the prior candidates are returned separately (the
\* classifications placeholder and the coordinates are left out)
alert_mongify(record) ==
    IF "prv_candidates" \notin DOMAIN record
    THEN [raises |-> "KeyError"]
    ELSE [raises |-> None,
          doc |-> [k \in DOMAIN record \ {"prv_candidates"} |-> record[k]],
          prv_candidates |-> IF record.prv_candidates = NoneList
                             THEN << >>
                             ELSE record.prv_candidates]

Docs == {alert_mongify(r).doc : r \in AllRecords}

\* {kk: vv for kk, vv in prv_candidate.items() if vv is not None}
StripNulls(p) == [k \in {kk \in DOMAIN p : p[kk] # Null} |-> p[k]]

StripAll(prv) == [i \in 1..Len(prv) |-> StripNulls(prv[i])]

InSeq(x, s) == \E i \in 1..Len(s) : s[i] = x

\* the $set operator in the place of $addToSet: the field becomes the items
SetField(arr, items) == items

\* $addToSet with $each: every item not yet an element (by value) is appended
RECURSIVE AddToSet(_, _)
AddToSet(arr, items) ==
    IF items = <<>> THEN arr
    ELSE AddToSet(IF InSeq(Head(items), arr) THEN arr ELSE Append(arr, Head(items)),
                  Tail(items))

\* count_documents({'candid': candid}, limit=1) on the primary collection
CountAlerts(candid) ==
    IF \E d \in Docs : d.candid = candid /\ alerts[d] > 0 THEN 1 ELSE 0

\* count_documents({'_id': objectId}, limit=1) on the aux collection
CountAux(objectId) == IF objectId \in DOMAIN aux THEN 1 ELSE 0

\* config['xmatch']['catalogs'] of the running pipeline, in the order of the
\* configuration file
XmatchCatalogs == <<"cat1">>

\* list(database[catalog].find(...)): the sources of the catalog within the
\* cone around the position of the alert; the position is the alert's own
ConeSearch(catalog, alert) == {[catalog |-> catalog, around |-> alert.candid]}

\* the loop over the catalogs inside the try block of alert_filter__xmatch:
\* `failing` is the index of the catalog whose query raises (0: none); the
\* handler prints, and the function returns xmatches as it stands
RECURSIVE XmatchLoop(_, _, _, _, _)
XmatchLoop(catalogs, alert, failing, i, xm) ==
    IF i > Len(catalogs) \/ i = failing
    THEN xm
    ELSE XmatchLoop(catalogs, alert, failing, i + 1,
                    Put(xm, catalogs[i], ConeSearch(catalogs[i], alert)))

alert_filter__xmatch(catalogs, alert, failing) ==
    XmatchLoop(catalogs, alert, failing, 1, EmptyMap)

\* the elliptical match against the galaxy catalog, under the key clu_version
alert_filter__xmatch_clu(alert) == [c \in {CLU} |-> ConeSearch(CLU, alert)]

\* {**a, **b}
Merge(a, b) == [k \in DOMAIN a \cup DOMAIN b |-> IF k \in DOMAIN b THEN b[k] ELSE a[k]]

\* alert_filter__xmatch merged with alert_filter__xmatch_clu, with a store
\* that answers every query
Xmatches(alert) ==
    Merge(alert_filter__xmatch(XmatchCatalogs, alert, 0), alert_filter__xmatch_clu(alert))

\* the first block of an Avro container file: the magic and the writer schema
AvroHeader == [magic |-> "Obj", schema |-> "ztf.alert"]

\* msg.value(): the bytes of the whole message, a container holding one block
\* for each of its records
value(message) == <<AvroHeader>> \o message

\* readSchemaData(io.BytesIO(bytes)): the records of the container, in order
readSchemaData(bytes) ==
    IF bytes # <<>> /\ Head(bytes) = AvroHeader THEN Tail(bytes) ELSE <<>>

\* the record the worker of topic t is processing
Message(t) == broker[t][msg[t][1]][msg[t][2]]

Record(t) == Message(t)[idx[t]]

\* the positions of a consumer that joins under the group id of the worker
\* before it: where that worker left off
SameGroupConsumer(t) == offset[t]

\* the positions of a consumer whose group id (group and the time of the
\* start, to the microsecond) no consumer had before: nothing is committed
FreshConsumer(t) == [p \in Partitions(t) |-> 0]

(***************************************************************************)
(* Filter templates: the load in AlertConsumer.__init__ and the evaluation *)
(* in alert_filter__user_defined.                                          *)
(***************************************************************************)
\* config['database']['collection_alerts_ztf']
collection_alerts == "ZTF_alerts"

Catalogs == {collection_alerts, "ZUDS_alerts"}

\* a filter template as stored; created is a time, and the pipeline, parsed,
\* is the stages that the user wrote
FilterTemplate(id, catalog, program, created) ==
    [_id |-> id, catalog |-> catalog, science_program_id |-> program, created |-> created,
     pipeline |-> <<[project |-> id]>>]

\* config['filters'][collection_alerts], the upstream pipeline: a $match stage
\* on candid, with whatever value stands in that place, then the stage that
\* drops the cutouts
Upstream(candid) == <<[match |-> [candid |-> candid]], [project |-> "cutouts"]>>

filter_pipeline_upstream == Upstream(Null)

\* filter_template['pipeline'] = upstream + loads(filter_template['pipeline'])
Prepend(upstream, template) == [template EXCEPT !.pipeline = upstream \o @]

\* the templates of two programs, one each
TwoPrograms ==
    << FilterTemplate(1, collection_alerts, 1, 2), FilterTemplate(2, collection_alerts, 2, 1) >>

\* the _id expression of the first $group stage, 'science_program_id': a string
\* that does not start with $ is a literal, not a field path
GroupId == [literal |-> "science_program_id"]

\* the value of an aggregation expression on a document
Expression(e, doc) == IF "path" \in DOMAIN e THEN doc[e.path] ELSE e.literal

Max(a, b) == IF a >= b THEN a ELSE b

\* {'$group': {'_id': ..., 'created': {'$max': '$created'}, 'tmp': {'$last': '$$ROOT'}}}:
\* the groups in the order in which their first document comes
RECURSIVE Group(_, _)
Group(docs, groups) ==
    IF docs = << >> THEN groups
    ELSE LET d == Head(docs)
             k == Expression(GroupId, d)
         IN  IF \E i \in 1..Len(groups) : groups[i]._id = k
             THEN Group(Tail(docs),
                        [i \in 1..Len(groups) |->
                            IF groups[i]._id = k
                            THEN [_id |-> k, created |-> Max(groups[i].created, d.created),
                                  tmp |-> d]
                            ELSE groups[i]])
             ELSE Group(Tail(docs),
                        Append(groups, [_id |-> k, created |-> d.created, tmp |-> d]))

\* the aggregation on the filters collection: $match on the catalog, the
\* $group above, then every tmp pushed into the one list that is kept
LoadTemplates(collection) ==
    LET matched == SelectSeq(collection, LAMBDA d : d.catalog = collection_alerts)
        groups == Group(matched, << >>)
    IN  [i \in 1..Len(groups) |-> Prepend(filter_pipeline_upstream, groups[i].tmp)]

\* the templates that the filters collection may hold
TemplateDocs ==
    {FilterTemplate(id, c, p, cr) :
        id \in 1..MaxTemplates, c \in Catalogs, p \in 1..MaxTemplates, cr \in 1..MaxTemplates}

\* the contents of a collection of at most MaxTemplates templates: _id is unique
Collections ==
    {c \in UNION {[1..n -> TemplateDocs] : n \in 0..MaxTemplates} :
        \A i, j \in 1..Len(c) : i # j => c[i]._id # c[j]._id}

\* the values that may stand in the $match stage of a loaded template
Bindings == {Null, 1}

\* loaded filters of the alert catalog, of one time of creation
LoadedTemplates ==
    {Prepend(Upstream(b), d) :
        b \in Bindings,
        d \in {x \in TemplateDocs : x.catalog = collection_alerts /\ x.created = 1}}

\* the lists of loaded filters: no _id twice
FilterLists ==
    {c \in UNION {[1..n -> LoadedTemplates] : n \in 0..MaxTemplates} :
        \A i, j \in 1..Len(c) : i # j => c[i]._id # c[j]._id}

\* what database[catalog].aggregate does for one filter: it raises, it exceeds
\* maxTimeMS (which raises too), or it returns the documents that passed
Outcomes ==
    {[status |-> "error", docs |-> << >>], [status |-> "timeout", docs |-> << >>],
     [status |-> "ok", docs |-> << >>], [status |-> "ok", docs |-> <<"a">>],
     [status |-> "ok", docs |-> <<"b", "a">>]}

NoCall == [filter_templates |-> << >>, outcomes |-> << >>, running |-> FALSE]

\* `break`: no further filter is evaluated
Break(fs, i) == Len(fs) + 1

\* `continue` in the except clause: on to the next filter
Continue(fs, i) == i + 1

\* the for loop of alert_filter__user_defined from filter i on; outcomes[i] is
\* what the aggregation of filter i does
RECURSIVE Evaluate(_, _, _, _)
Evaluate(fs, outcomes, i, passed) ==
    IF i > Len(fs) THEN passed
    ELSE IF outcomes[i].status # "ok"
         THEN Evaluate(fs, outcomes, Continue(fs, i), passed)
         ELSE Evaluate(fs, outcomes, i + 1,
                       IF Len(outcomes[i].docs) > 0
                       THEN Put(passed, fs[i]._id, outcomes[i].docs[1])
                       ELSE passed)

alert_filter__user_defined(fs, outcomes) == Evaluate(fs, outcomes, 1, EmptyMap)

\* _filter['pipeline'][0]["$match"]["candid"] = alert['candid']
Bind(template, candid) == [template EXCEPT !.pipeline[1].match.candid = candid]

\* _filter = filter_template: one object under two names, so what is done to
\* _filter is done to the element of the list
SameObject(fs, i, bound) == [fs EXCEPT ![i] = bound]

\* _filter = deepcopy(filter_template): the list after _filter has been bound
deepcopy(fs, i, bound) == fs

\* filter_templates after the for loop has gone over the filters from i on;
\* the copy and the binding come before the aggregation, whatever it does
RECURSIVE TemplatesAfter(_, _, _)
TemplatesAfter(fs, alert, i) ==
    IF i > Len(fs) THEN fs
    ELSE TemplatesAfter(deepcopy(fs, i, Bind(fs[i], alert.candid)), alert, i + 1)

\* the pipelines handed to database[catalog].aggregate, one for each filter
Executed(fs, alert) == [i \in 1..Len(fs) |-> Bind(fs[i], alert.candid).pipeline]

(***************************************************************************)
(* Initial state: the supervisor starts with nothing on watch.             *)
(***************************************************************************)
\* two topics of one partition each; both carry the alert R1
TwoTopics ==
    [t \in Topics |->
        CASE t = "t1" -> [p \in {1} |-> << <<R1>> >>]
          [] t = "t2" -> [p \in {1} |-> << <<R2>>, <<R1>> >>]
          [] OTHER -> EmptyMap]

\* one listed topic, of two partitions
TwoPartitions ==
    [t \in Topics |->
        IF t = "t1" THEN [p \in {1, 2} |-> IF p = 1 THEN << <<R1, R2>> >> ELSE << <<R2>> >>]
                    ELSE EmptyMap]

Started ==
    /\ sup_pc = "list"
    /\ sup_todo = {}
    /\ topics_on_watch = {}
    /\ datestr = None
    /\ sup_failures = 0
    /\ utcnow = "20200101"
    /\ filter_templates = [t \in Topics |-> << >>]
    /\ call = NoCall
    /\ passed_filters = EmptyMap
    /\ pc = [t \in Topics |-> "not_started"]
    /\ msg = [t \in Topics |-> NoMsg]
    /\ idx = [t \in Topics |-> 0]
    /\ offset = [t \in Topics |-> [p \in Partitions(t) |-> 0]]
    /\ assigned = [t \in Topics |-> {}]
    /\ num_partitions = [t \in Topics |-> 0]
    /\ num_disconnected_partitions = [t \in Topics |-> 0]
    /\ eop = [t \in Topics |-> {}]
    /\ disc = [t \in Topics |-> {}]
    /\ alerts = [d \in Docs |-> 0]
    /\ aux = EmptyMap
    /\ avro_files = EmptyMap
    /\ tess_files = EmptyMap
    /\ portal = {}
    /\ okrec = [t \in Topics |-> TRUE]
    /\ ingested = {}
    /\ resources = [t \in Topics |-> NoResources]
    /\ xcall = NoXcall
    /\ mcall = NoMcall
    /\ xmatches = EmptyMap
    /\ request = NoRequest
    /\ response = NoResponse

\* one topic of two partitions, in every configuration
Init ==
    /\ broker = TwoPartitions
    /\ topics = {"t1"}
    /\ filters = TwoPrograms
    /\ obs_date = None
    /\ test \in BOOLEAN
    /\ save_packets \in BOOLEAN
    /\ post_to_skyportal \in BOOLEAN
    /\ Started

\* two topics, each with its worker, in a single pass of the supervisor
InitTwoTopics ==
    /\ broker = TwoTopics
    /\ topics = {"t1", "t2"}
    /\ filters = TwoPrograms
    /\ obs_date = None
    /\ test = TRUE
    /\ save_packets = TRUE
    /\ post_to_skyportal = TRUE
    /\ Started

\* one topic of two partitions, in production
InitProduction ==
    /\ broker = TwoPartitions
    /\ topics = {"t1"}
    /\ filters = TwoPrograms
    /\ obs_date = None
    /\ test = FALSE
    /\ save_packets = TRUE
    /\ post_to_skyportal = TRUE
    /\ Started

\* the function alert_filter__user_defined is called: its arguments are the
\* filters and, for each, what its aggregation does; it runs to its return
EvaluateFilters(fs, alert, outcomes) ==
    /\ ~call.running
    /\ call' = [filter_templates |-> fs, outcomes |-> outcomes, running |-> TRUE,
                alert |-> alert, executed |-> Executed(fs, alert),
                after |-> TemplatesAfter(fs, alert, 1)]
    /\ passed_filters' = alert_filter__user_defined(fs, outcomes)
    /\ UNCHANGED <<config_vars, xmatch_vars, web_vars, mcall, resources,
                   filter_templates, supervisor_vars, pc, msg, idx,
                   consumer_vars, store_vars, file_vars, portal, okrec, ingested>>

\* the caller takes the result; the locals of the call are gone
ReturnFilters ==
    /\ call.running
    /\ call' = NoCall
    /\ passed_filters' = EmptyMap
    /\ UNCHANGED <<config_vars, xmatch_vars, web_vars, mcall, resources,
                   filter_templates, supervisor_vars, pc, msg, idx,
                   consumer_vars, store_vars, file_vars, portal, okrec, ingested>>

\* every topic has one partition, with no message in it yet
QuietNight == [t \in Topics |-> [p \in {1} |-> << >>]]

\* the supervisor on a quiet night: the broker lists a topic of tonight, one
\* whose name has the date at its end, and one of ZUDS
InitSupervisor ==
    /\ broker = QuietNight
    /\ topics = {"t1", "t3", "t4"}
    /\ filters = TwoPrograms
    /\ obs_date \in {None, "20200101"}
    /\ test \in BOOLEAN
    /\ save_packets = TRUE
    /\ post_to_skyportal = TRUE
    /\ Started

\* the same, in production and with no obs_date
InitSupervisorProduction ==
    /\ broker = QuietNight
    /\ topics = {"t1", "t3", "t4"}
    /\ filters = TwoPrograms
    /\ obs_date = None
    /\ test = FALSE
    /\ save_packets = TRUE
    /\ post_to_skyportal = TRUE
    /\ Started

\* one topic on a quiet night, with any content of the filters collection
InitTemplates ==
    /\ broker = QuietNight
    /\ topics = {"t1"}
    /\ filters \in Collections
    /\ obs_date = None
    /\ test = FALSE
    /\ save_packets = TRUE
    /\ post_to_skyportal = TRUE
    /\ Started

\* nothing runs but the filter evaluation
InitFilters ==
    /\ broker = QuietNight
    /\ topics = {"t1"}
    /\ filters = TwoPrograms
    /\ obs_date = None
    /\ test = FALSE
    /\ save_packets = TRUE
    /\ post_to_skyportal = TRUE
    /\ Started

(***************************************************************************)
(* Worker process bookkeeping.                                             *)
(***************************************************************************)
\* the positions of a worker process that has ended, by what ended it
Ended == {"not_started", "exit_startup", "exit_none", "exit_eop", "exit_broker_error",
          "exit_disconnected", "killed"}

Alive(t) == pc[t] \notin Ended

\* the process of topic t ends (sys.exit, kill): its locals are gone
Exited(t, how) ==
    /\ pc' = [pc EXCEPT ![t] = how]
    /\ msg' = [msg EXCEPT ![t] = NoMsg]
    /\ idx' = [idx EXCEPT ![t] = 0]
    /\ okrec' = [okrec EXCEPT ![t] = TRUE]

\* poll() returns to the listener loop, which polls again
BackToPoll(t) ==
    /\ pc' = [pc EXCEPT ![t] = "poll"]
    /\ msg' = [msg EXCEPT ![t] = NoMsg]
    /\ idx' = [idx EXCEPT ![t] = 0]
    /\ okrec' = [okrec EXCEPT ![t] = TRUE]

\* an exception inside the try block of poll: caught after the record loop
CaughtInPoll(t) == BackToPoll(t)

\* the for loop over the records of the message moves on
NextRecord(t) ==
    IF idx[t] < Len(Message(t))
    THEN /\ idx' = [idx EXCEPT ![t] = idx[t] + 1]
         /\ pc' = [pc EXCEPT ![t] = "dedupe"]
         /\ okrec' = [okrec EXCEPT ![t] = TRUE]
         /\ UNCHANGED msg
    ELSE BackToPoll(t)

(***************************************************************************)
(* Supervisor: ingester.                                                   *)
(***************************************************************************)
\* kafka-topics listing, datestr and the topics_tonight filter
SupList ==
    /\ sup_pc = "list"
    /\ sup_pc' = "iter"
    /\ datestr' = Datestr
    /\ sup_todo' = TopicsTonight(Datestr)
    /\ UNCHANGED <<config_vars, xmatch_vars, web_vars, mcall, resources,
                   filter_vars, topics_on_watch, sup_failures, pc, msg, idx,
                   consumer_vars, store_vars, file_vars, portal, okrec, ingested>>

\* subprocess.run of kafka-topics.sh raises: caught by the handler of the loop,
\* which starts the next pass
SupListRaises ==
    /\ sup_pc = "list"
    /\ sup_failures < MaxSupFailures
    /\ sup_failures' = sup_failures + 1
    /\ UNCHANGED <<config_vars, xmatch_vars, web_vars, mcall, resources,
                   filter_vars, sup_pc, sup_todo, topics_on_watch, datestr, pc, msg,
                   idx, consumer_vars, store_vars, file_vars, portal, okrec, ingested>>

\* a topic that is in every dict
AnyTopic(t) == t \in Topics

\* `t not in topics_on_watch`
NotOnWatch(t) == t \notin topics_on_watch

\* the opposite of what Process.is_alive() returns
is_dead(t) == ~(pc[t] \notin Ended)

\* topics_on_watch[t].is_alive()
is_alive(t) == pc[t] \notin Ended

\* one turn of `for t in topics_tonight`: spawn, or health check; `failed` is
\* a health check that raises, which is caught on the spot
SupVisit(t, failed) ==
    /\ sup_pc = "iter"
    /\ t \in sup_todo
    /\ sup_todo' = sup_todo \ {t}
    /\ IF NotOnWatch(t)
       THEN \* multiprocessing.Process(target=listener, ...).start(): a consumer
            \* with a fresh group id, nothing assigned yet
            /\ ~failed
            /\ topics_on_watch' = topics_on_watch \cup {t}
            /\ pc' = [pc EXCEPT ![t] = "init"]
            /\ offset' = [offset EXCEPT ![t] = FreshConsumer(t)]
            /\ assigned' = [assigned EXCEPT ![t] = {}]
            /\ num_partitions' = [num_partitions EXCEPT ![t] = 0]
            /\ num_disconnected_partitions' =
                   [num_disconnected_partitions EXCEPT ![t] = 0]
            /\ eop' = [eop EXCEPT ![t] = {}]
            /\ disc' = [disc EXCEPT ![t] = {}]
            /\ resources' = [resources EXCEPT ![t] = NoResources]
            /\ UNCHANGED sup_failures
       ELSE /\ IF failed
               THEN /\ sup_failures < MaxSupFailures
                    /\ sup_failures' = sup_failures + 1
                    /\ UNCHANGED topics_on_watch
               ELSE /\ topics_on_watch' =
                           IF ~is_alive(t) THEN topics_on_watch \ {t} ELSE topics_on_watch
                    /\ UNCHANGED sup_failures
            /\ UNCHANGED <<pc, consumer_vars, resources>>
    /\ UNCHANGED <<config_vars, xmatch_vars, web_vars, mcall, filter_vars, sup_pc, datestr, msg, idx,
                   store_vars, file_vars, portal, okrec, ingested>>

\* Process(...).start() raises: the entry is in the dict, no process runs, and
\* the handler of the loop starts the next pass
SupSpawnRaises(t) ==
    /\ sup_pc = "iter"
    /\ t \in sup_todo
    /\ NotOnWatch(t)
    /\ sup_failures < MaxSupFailures
    /\ sup_failures' = sup_failures + 1
    /\ topics_on_watch' = topics_on_watch \cup {t}
    /\ sup_pc' = "list"
    /\ sup_todo' = {}
    /\ UNCHANGED <<config_vars, xmatch_vars, web_vars, mcall, resources,
                   filter_vars, datestr, pc, msg, idx, consumer_vars, store_vars,
                   file_vars, portal, okrec, ingested>>

\* end of the loop body: in test mode kill every worker and leave the loop
SupEndPass ==
    /\ sup_pc = "iter"
    /\ sup_todo = {}
    /\ IF test
       THEN /\ sup_pc' = "done"
            /\ pc' = [t \in Topics |-> IF t \in topics_on_watch /\ is_alive(t)
                                       THEN "killed" ELSE pc[t]]
            /\ msg' = [t \in Topics |-> IF t \in topics_on_watch THEN NoMsg ELSE msg[t]]
            /\ idx' = [t \in Topics |-> IF t \in topics_on_watch THEN 0 ELSE idx[t]]
            /\ okrec' = [t \in Topics |-> IF t \in topics_on_watch THEN TRUE ELSE okrec[t]]
       ELSE /\ sup_pc' = "list"
            /\ UNCHANGED <<pc, msg, idx, okrec>>
    /\ UNCHANGED <<config_vars, xmatch_vars, web_vars, mcall, resources,
                   filter_vars, sup_todo, topics_on_watch, datestr, sup_failures,
                   consumer_vars, store_vars, file_vars, portal, ingested>>

\* the date changes at midnight (UTC)
Midnight ==
    /\ utcnow = "20200101"
    /\ utcnow' = "20200102"
    /\ UNCHANGED <<broker, topics, obs_date, filters, filter_vars, test, save_packets,
                   post_to_skyportal, xmatch_vars, web_vars, mcall, resources,
                   supervisor_vars, pc, msg, idx, consumer_vars, store_vars,
                   file_vars, portal, okrec, ingested>>

(***************************************************************************)
(* listener: the start of the worker process.                              *)
(***************************************************************************)
\* AlertConsumer(topic, **conf): `connected` is the outcome of connect_to_db;
\* ConnectionRefusedError is raised outside every try block of listener
Construct(t, connected) ==
    /\ pc[t] = "init"
    /\ IF connected
       THEN /\ pc' = [pc EXCEPT ![t] = "poll"]
            /\ filter_templates' = [filter_templates EXCEPT ![t] = LoadTemplates(filters)]
            /\ UNCHANGED <<msg, idx, okrec>>
       ELSE /\ Exited(t, "exit_startup")
            /\ UNCHANGED filter_templates
    /\ resources' = [resources EXCEPT ![t] = Opened(connected)]
    /\ UNCHANGED <<config_vars, xmatch_vars, web_vars, mcall, call, passed_filters, supervisor_vars,
                   consumer_vars, store_vars, file_vars, portal, ingested>>

(***************************************************************************)
(* Broker callbacks of AlertConsumer, served while the worker polls.       *)
(***************************************************************************)
\* on_assign(consumer, partitions): offsets to beginning, count the partitions
on_assign(t, parts) ==
    /\ pc[t] = "poll"
    /\ parts # {}
    /\ parts \subseteq Partitions(t) \ assigned[t]
    /\ assigned' = [assigned EXCEPT ![t] = assigned[t] \cup parts]
    /\ offset' = [offset EXCEPT ![t] =
                     [p \in Partitions(t) |-> IF p \in parts THEN 0 ELSE offset[t][p]]]
    /\ num_partitions' = [num_partitions EXCEPT ![t] = num_partitions[t] + Cardinality(parts)]
    /\ UNCHANGED <<config_vars, xmatch_vars, web_vars, mcall, resources,
                   filter_vars, supervisor_vars, pc, msg, idx,
                   num_disconnected_partitions, eop, disc, store_vars, file_vars,
                   portal, okrec, ingested>>

\* the test of error_cb that decides sys.exit()
AllDisconnected(t, n) == n = num_partitions[t]

\* error_cb(err): err concerns the broker connection of partition p
error_cb(t, p, code) ==
    /\ pc[t] = "poll"
    /\ p \in Partitions(t)
    /\ num_disconnected_partitions[t] < MaxDisconnects
    /\ IF code = DISCONNECT
       THEN /\ num_disconnected_partitions' =
                   [num_disconnected_partitions EXCEPT ![t] = @ + 1]
            /\ disc' = [disc EXCEPT ![t] = disc[t] \cup {p}]
            /\ IF AllDisconnected(t, num_disconnected_partitions[t] + 1)
               THEN Exited(t, "exit_disconnected")
               ELSE UNCHANGED <<pc, msg, idx, okrec>>
       ELSE UNCHANGED <<num_disconnected_partitions, disc, pc, msg, idx, okrec>>
    /\ UNCHANGED <<config_vars, xmatch_vars, web_vars, mcall, resources,
                   filter_vars, supervisor_vars, offset, assigned, num_partitions,
                   eop, store_vars, file_vars, portal, ingested>>

(***************************************************************************)
(* listener and AlertConsumer.poll: what consumer.poll() returns.          *)
(***************************************************************************)
\* msg is None: after the print, msg.error() raises AttributeError outside the
\* try block; listener's `except Exception` ends the process
PollNone(t) ==
    /\ pc[t] = "poll"
    /\ Exited(t, "exit_none")
    /\ UNCHANGED <<config_vars, xmatch_vars, web_vars, mcall, resources,
                   filter_vars, supervisor_vars, consumer_vars, store_vars,
                   file_vars, portal, ingested>>

\* listener's handler of EopError
EopHandlerExits == test

\* msg.error(): p > 0 is the end of partition p, p = 0 any other broker error;
\* either way poll raises EopError
PollError(t, p) ==
    /\ pc[t] = "poll"
    /\ \/ p = 0
       \/ /\ p \in assigned[t]
          /\ p \notin eop[t]
          /\ offset[t][p] = Len(broker[t][p])
    /\ eop' = [eop EXCEPT ![t] = IF p = 0 THEN eop[t] ELSE eop[t] \cup {p}]
    /\ IF EopHandlerExits
       THEN Exited(t, IF p = 0 THEN "exit_broker_error" ELSE "exit_eop")
       ELSE UNCHANGED <<pc, msg, idx, okrec>>
    /\ UNCHANGED <<config_vars, xmatch_vars, web_vars, mcall, resources,
                   filter_vars, supervisor_vars, offset, assigned, num_partitions,
                   num_disconnected_partitions, disc, store_vars, file_vars,
                   portal, ingested>>

\* a message of partition p: decodeMessage, then the loop over its records
PollMessage(t, p) ==
    /\ pc[t] = "poll"
    /\ p \in assigned[t]
    /\ offset[t][p] < Len(broker[t][p])
    /\ offset' = [offset EXCEPT ![t][p] = @ + 1]
    /\ msg' = [msg EXCEPT ![t] = <<p, offset[t][p] + 1>>]
    /\ idx' = [idx EXCEPT ![t] = 1]
    /\ pc' = [pc EXCEPT ![t] = "dedupe"]
    /\ okrec' = [okrec EXCEPT ![t] = TRUE]
    /\ UNCHANGED <<config_vars, xmatch_vars, web_vars, mcall, resources,
                   filter_vars, supervisor_vars, assigned, num_partitions,
                   num_disconnected_partitions, eop, disc, store_vars, file_vars,
                   portal, ingested>>

(***************************************************************************)
(* AlertConsumer.poll: the steps on one record, one store call per step.   *)
(* `raises` and `ok` are the store's or the portal's answer to the call.   *)
(***************************************************************************)
\* the dedupe query filtering on a field that no primary document has
NotInAlertsWrongField(candid) ==
    ~\E d \in Docs : "candidate_id" \in DOMAIN d /\ d["candidate_id"] = candid /\ alerts[d] > 0

\* the result of the dedupe query that lets the record be ingested
NotInAlerts(candid) == CountAlerts(candid) = 0

\* count_documents on candid; on 0, the raw packet is saved when save_packets
Dedupe(t, raises) ==
    /\ pc[t] = "dedupe"
    /\ IF raises
       THEN /\ CaughtInPoll(t)
            /\ UNCHANGED avro_files
       ELSE IF NotInAlerts(Record(t).candid)
       THEN /\ pc' = [pc EXCEPT ![t] = "insert"]
            /\ avro_files' = IF save_packets
                             THEN Put(avro_files, Record(t).candid, value(Message(t)))
                             ELSE avro_files
            /\ UNCHANGED <<msg, idx, okrec>>
       ELSE /\ NextRecord(t)
            /\ UNCHANGED avro_files
    /\ UNCHANGED <<config_vars, xmatch_vars, web_vars, mcall, resources,
                   filter_vars, supervisor_vars, consumer_vars, store_vars,
                   tess_files, portal, ingested>>

\* alert_mongify, alert_filter__ml, insert_db_entry into the primary collection
\* (insert_db_entry swallows a failed insert)
InsertAlert(t, ok) ==
    /\ pc[t] = "insert"
    /\ pc' = [pc EXCEPT ![t] = "auxcheck"]
    /\ IF ok
       THEN /\ alerts' = [alerts EXCEPT ![alert_mongify(Record(t)).doc] = @ + 1]
            /\ UNCHANGED okrec
       ELSE /\ okrec' = [okrec EXCEPT ![t] = FALSE]
            /\ UNCHANGED alerts
    /\ UNCHANGED <<config_vars, xmatch_vars, web_vars, mcall, resources,
                   filter_vars, supervisor_vars, msg, idx, consumer_vars, aux,
                   file_vars, portal, ingested>>

\* the branch taken after count_documents on the aux collection
AuxBranch(objectId) == IF CountAux(objectId) = 0 THEN "auxinsert" ELSE "auxupdate"

\* null-stripping of the prior candidates, then count_documents on _id
AuxCheck(t, raises) ==
    /\ pc[t] = "auxcheck"
    /\ IF raises
       THEN CaughtInPoll(t)
       ELSE /\ pc' = [pc EXCEPT ![t] = AuxBranch(Record(t).objectId)]
            /\ UNCHANGED <<msg, idx, okrec>>
    /\ UNCHANGED <<config_vars, xmatch_vars, web_vars, mcall, resources,
                   filter_vars, supervisor_vars, consumer_vars, store_vars,
                   file_vars, portal, ingested>>

\* cross-matches, then insert_db_entry of {_id, cross_matches, prv_candidates};
\* a failed insert, a duplicate _id included, is swallowed
AuxInsert(t, ok) ==
    /\ pc[t] = "auxinsert"
    /\ pc' = [pc EXCEPT ![t] = "tess"]
    /\ IF ~ok
       THEN /\ okrec' = [okrec EXCEPT ![t] = FALSE]
            /\ UNCHANGED aux
       ELSE /\ aux' = IF Record(t).objectId \in DOMAIN aux
                      THEN aux
                      ELSE Put(aux, Record(t).objectId,
                               [cross_matches |-> Xmatches(alert_mongify(Record(t)).doc),
                                prv_candidates |->
                                    StripAll(alert_mongify(Record(t)).prv_candidates)])
            /\ UNCHANGED okrec
    /\ UNCHANGED <<config_vars, xmatch_vars, web_vars, mcall, resources,
                   filter_vars, supervisor_vars, msg, idx, consumer_vars, alerts,
                   file_vars, portal, ingested>>

\* update_one({'_id': objectId}, {'$addToSet': {'prv_candidates': {'$each': ...}}},
\* upsert=True)
UpdateAux(objectId, items) ==
    IF objectId \in DOMAIN aux
    THEN Put(aux, objectId,
             [aux[objectId] EXCEPT !.prv_candidates = AddToSet(@, items)])
    ELSE Put(aux, objectId, [prv_candidates |-> AddToSet(<<>>, items)])

AuxUpdate(t, raises) ==
    /\ pc[t] = "auxupdate"
    /\ IF raises
       THEN /\ CaughtInPoll(t)
            /\ UNCHANGED aux
       ELSE /\ aux' = UpdateAux(Record(t).objectId,
                                StripAll(alert_mongify(Record(t)).prv_candidates))
            /\ pc' = [pc EXCEPT ![t] = "tess"]
            /\ UNCHANGED <<msg, idx, okrec>>
    /\ UNCHANGED <<config_vars, xmatch_vars, web_vars, mcall, resources,
                   filter_vars, supervisor_vars, consumer_vars, alerts,
                   file_vars, portal, ingested>>

\* 'TESS' in alert['candidate']['programpi']
IsTess(programpi) == programpi \in {"TESS", "TESS Guest Investigator"}

\* find({'_id': objectId}, {'cross_matches': 1}, limit=1), as a list
FindCrossMatches(objectId) ==
    IF objectId \in DOMAIN aux
    THEN << [k \in {"_id", "cross_matches"} \cap ({"_id"} \cup DOMAIN aux[objectId]) |->
                IF k = "_id" THEN objectId ELSE aux[objectId][k]] >>
    ELSE << >>

\* dict.pop(key, None)
Pop(d, key) == [k \in DOMAIN d \ {key} |-> d[k]]

\* the TESS dump: prv_candidates and cross_matches put back on the alert, the
\* alert written as JSON when save_packets; `wrote` is the outcome of the write,
\* whose failure is caught on the spot
TessDump(t, raises, wrote) ==
    /\ pc[t] = "tess"
    /\ IF ~IsTess(Record(t).programpi)
       THEN /\ pc' = [pc EXCEPT ![t] = "filters"]
            /\ UNCHANGED <<msg, idx, okrec, tess_files>>
       ELSE LET found == FindCrossMatches(Record(t).objectId)
            IN  IF raises \/ found = << >>
                      \/ "cross_matches" \notin DOMAIN Pop(found[1], CLU)
                THEN /\ CaughtInPoll(t)
                     /\ UNCHANGED tess_files
                ELSE /\ pc' = [pc EXCEPT ![t] = "filters"]
                     /\ tess_files' =
                            IF save_packets /\ wrote
                            THEN Put(tess_files, Record(t).candid,
                                     [candid |-> Record(t).candid,
                                      objectId |-> Record(t).objectId,
                                      prv_candidates |->
                                          StripAll(alert_mongify(Record(t)).prv_candidates),
                                      cross_matches |-> Pop(found[1], CLU).cross_matches])
                            ELSE tess_files
                     /\ UNCHANGED <<msg, idx, okrec>>
    /\ UNCHANGED <<config_vars, xmatch_vars, web_vars, mcall, resources,
                   filter_vars, supervisor_vars, consumer_vars, store_vars,
                   avro_files, portal, ingested>>

\* the record loop reaches the end of its body for this record
EndRecord(t) ==
    /\ ingested' = IF okrec[t] THEN ingested \cup {Record(t).candid} ELSE ingested
    /\ NextRecord(t)

\* alert_filter__user_defined (reads only, failures isolated per filter), then
\* the test of config['misc']['post_to_skyportal']
Filters(t) ==
    /\ pc[t] = "filters"
    /\ IF post_to_skyportal
       THEN /\ pc' = [pc EXCEPT ![t] = "post"]
            /\ UNCHANGED <<msg, idx, okrec, ingested>>
       ELSE EndRecord(t)
    /\ UNCHANGED <<config_vars, xmatch_vars, web_vars, mcall, resources,
                   filter_vars, supervisor_vars, consumer_vars, store_vars,
                   file_vars, portal>>

\* the posts to /api/sources, /api/photometry and /api/thumbnail; a request
\* that raises (timeout, refused) leaves the try block
Post(t, raises) ==
    /\ pc[t] = "post"
    /\ IF raises
       THEN /\ CaughtInPoll(t)
            /\ UNCHANGED <<portal, ingested>>
       ELSE /\ portal' = portal \cup {Record(t).candid}
            /\ EndRecord(t)
    /\ UNCHANGED <<config_vars, xmatch_vars, web_vars, mcall, resources,
                   filter_vars, supervisor_vars, consumer_vars, store_vars, file_vars>>

(***************************************************************************)
(* Next-state relation and specifications.                                 *)
(***************************************************************************)
Next ==
    \/ SupList
    \/ \E t \in topics : SupVisit(t, FALSE)
    \/ SupEndPass
    \/ \E t \in topics : \E connected \in BOOLEAN : Construct(t, connected)
    \/ \E t \in topics : \E parts \in SUBSET Partitions(t) : on_assign(t, parts)
    \/ \E t \in topics : \E p \in Partitions(t) :
           \E code \in ErrorCodes : error_cb(t, p, code)
    \/ \E t \in topics : PollNone(t)
    \/ \E t \in topics : \E p \in Partitions(t) \cup {0} : PollError(t, p)
    \/ \E t \in topics : \E p \in Partitions(t) : PollMessage(t, p)
    \/ \E t \in topics : \E raises \in BOOLEAN : Dedupe(t, raises)
    \/ \E t \in topics : \E ok \in BOOLEAN : InsertAlert(t, ok)
    \/ \E t \in topics : \E raises \in BOOLEAN : AuxCheck(t, raises)
    \/ \E t \in topics : \E ok \in BOOLEAN : AuxInsert(t, ok)
    \/ \E t \in topics : \E raises \in BOOLEAN : AuxUpdate(t, raises)
    \/ \E t \in topics : \E raises \in BOOLEAN : \E wrote \in BOOLEAN :
           TessDump(t, raises, wrote)
    \/ \E t \in topics : Filters(t)
    \/ \E t \in topics : \E raises \in BOOLEAN : Post(t, raises)

Spec == Init /\ [][Next]_vars

SpecTwoTopics == InitTwoTopics /\ [][Next]_vars

\* what the running system does on its own: the supervisor loop, the worker's
\* pipeline steps, and the broker delivering pending messages and
\* end-of-partition events; faults (no message, broker errors, disconnects)
\* are not owed to anyone
SupervisorStep == SupList \/ (\E t \in topics : SupVisit(t, FALSE)) \/ SupEndPass

WorkerStep(t) ==
    \/ \E connected \in BOOLEAN : Construct(t, connected)
    \/ \E parts \in SUBSET Partitions(t) : on_assign(t, parts)
    \/ \E p \in Partitions(t) : PollError(t, p)
    \/ \E p \in Partitions(t) : PollMessage(t, p)
    \/ \E raises \in BOOLEAN : Dedupe(t, raises)
    \/ \E ok \in BOOLEAN : InsertAlert(t, ok)
    \/ \E raises \in BOOLEAN : AuxCheck(t, raises)
    \/ \E ok \in BOOLEAN : AuxInsert(t, ok)
    \/ \E raises \in BOOLEAN : AuxUpdate(t, raises)
    \/ \E raises \in BOOLEAN : \E wrote \in BOOLEAN : TessDump(t, raises, wrote)
    \/ Filters(t)
    \/ \E raises \in BOOLEAN : Post(t, raises)

FairSpec ==
    /\ InitProduction
    /\ [][Next]_vars
    /\ WF_vars(SupervisorStep)
    /\ \A t \in Topics : WF_vars(WorkerStep(t))

\* the supervisor with the faults of its loop and the change of date; of the
\* workers only their start and their death
SupervisorNext ==
    \/ SupList
    \/ SupListRaises
    \/ \E t \in topics : \E failed \in BOOLEAN : SupVisit(t, failed)
    \/ \E t \in topics : SupSpawnRaises(t)
    \/ SupEndPass
    \/ Midnight
    \/ \E t \in topics : \E connected \in BOOLEAN : Construct(t, connected)
    \/ \E t \in topics : PollNone(t)

SpecSupervisor == InitSupervisor /\ [][SupervisorNext]_vars

\* the loop of the supervisor goes on, and a started process runs its
\* constructor; the faults are not owed to anyone
FairSupervisor ==
    /\ InitSupervisorProduction
    /\ [][SupervisorNext]_vars
    /\ WF_vars(SupervisorStep)
    /\ \A t \in Topics : WF_vars(\E connected \in BOOLEAN : Construct(t, connected))

\* workers that load the templates of any collection
SpecTemplates == InitTemplates /\ [][SupervisorNext]_vars

\* calls of alert_filter__user_defined on every list of filters and every
\* combination of what their aggregations do
FiltersNext ==
    \/ /\ ~call.running
       /\ \E fs \in FilterLists : \E alert \in Docs :
              \E outcomes \in [1..Len(fs) -> Outcomes] : EvaluateFilters(fs, alert, outcomes)
    \/ ReturnFilters

SpecFilters == InitFilters /\ [][FiltersNext]_vars

(***************************************************************************)
(* Properties.                                                             *)
(***************************************************************************)
RECURSIVE SumAlerts(_)
SumAlerts(S) ==
    IF S = {} THEN 0
    ELSE LET d == CHOOSE x \in S : TRUE IN alerts[d] + SumAlerts(S \ {d})

\* number of primary documents with this candid
NumAlerts(candid) == SumAlerts({d \in Docs : d.candid = candid})

\* no worker is in the middle of a record
Quiescent == \A t \in Topics : pc[t] \in Ended \cup {"poll"}

\* C1: every candid some worker has finished ingesting has exactly one
\* document in the primary collection, whatever the interleaving of the
\* workers' dedupe queries and inserts
C1_ExactlyOnePrimary == \A c \in ingested : NumAlerts(c) = 1

\* C2: whenever no worker is in the middle of a record, the objectId of every
\* primary document has an aux document (one at most, _id being the key)
C2_AuxForEveryPrimary ==
    Quiescent => \A d \in Docs : alerts[d] > 0 => d.objectId \in DOMAIN aux

\* C3: no two elements of an aux document's prv_candidates have the same candid
C3_NoDuplicateCandid ==
    \A o \in DOMAIN aux :
        \A i, j \in 1..Len(aux[o].prv_candidates) :
            i # j => aux[o].prv_candidates[i].candid # aux[o].prv_candidates[j].candid

\* C4: the null-stripped prior candidates of every alert that a worker has
\* finished ingesting are in the aux document of its object, also when two
\* workers ingested two alerts of the object concurrently
C4_Converge ==
    \A r \in AllRecords :
        r.candid \in ingested =>
            /\ r.objectId \in DOMAIN aux
            /\ \A i \in 1..Len(r.prv_candidates) :
                   InSeq(StripNulls(r.prv_candidates[i]), aux[r.objectId].prv_candidates)

\* every record of the message the worker of topic t holds has been ingested
\* to the end before
FullyProcessed(t) ==
    /\ msg[t] # NoMsg
    /\ \A i \in 1..Len(Message(t)) : Message(t)[i].candid \in ingested

\* C5: idempotence: while a worker processes a message all of whose records
\* were processed to the end before, none of its steps changes the primary
\* collection, the aux collection or the files on disk
C5_Idempotent ==
    [][\A t \in Topics :
          (FullyProcessed(t) /\ <<pc[t], idx[t]>> # <<pc'[t], idx'[t]>>)
              => /\ UNCHANGED <<alerts, aux, avro_files, tess_files>>
                 /\ pc'[t] \in Ended \cup {"poll", "dedupe"}]_vars

\* C5 witness: after a restart the worker is on the last record of the
\* two-record message that it saved to disk for that record the first time
C5_Witness ==
    \E t \in Topics :
        /\ FullyProcessed(t)
        /\ pc[t] = "dedupe"
        /\ Len(Message(t)) = 2
        /\ idx[t] = 2
        /\ Record(t).candid \in DOMAIN avro_files
        /\ avro_files[Record(t).candid] = value(Message(t))

\* C6: a failure on one record aborts that record only: a worker that has not
\* reached the last record of its message goes on with the message
C6_FailureAbortsRecordOnly ==
    [][\A t \in Topics :
          (msg[t] # NoMsg /\ idx[t] < Len(Message(t)) /\ pc'[t] \notin Ended)
              => msg'[t] = msg[t]]_vars

\* every partition of the topic is assigned and has signaled end-of-partition
AllSignaledEnd(t) ==
    /\ Partitions(t) # {}
    /\ assigned[t] = Partitions(t)
    /\ eop[t] = assigned[t]

\* C7: in production, once every partition has signaled end-of-partition the
\* worker eventually exits
C7_ExitsAfterAllEop ==
    \A t \in Topics : (~test /\ Alive(t) /\ AllSignaledEnd(t)) ~> ~Alive(t)

\* C8: a worker does not exit on an end-of-partition signal while one of its
\* assigned partitions has not signaled end
C8_NoExitBeforeAllEop ==
    \A t \in Topics : pc[t] = "exit_eop" => assigned[t] \subseteq eop[t]

\* C9: a worker whose assigned partitions have all been disconnected has
\* exited, and its disconnect counter equals num_partitions
C9_ExitsWhenAllDisconnected ==
    \A t \in Topics :
        (assigned[t] # {} /\ assigned[t] \subseteq disc[t])
            => /\ ~Alive(t)
               /\ num_disconnected_partitions[t] = num_partitions[t]

\* C10: a poll that returns no message leaves the store and the files alone
\* and the worker alive, polling again
C10_NoMessageContinues ==
    [][\A t \in Topics :
          PollNone(t) => (pc'[t] = "poll" /\ UNCHANGED <<alerts, aux, avro_files, tess_files>>)]_vars

\* the supervisor starts a worker process for topic t in this step
Spawned(t) == pc[t] # "init" /\ pc'[t] = "init"

\* C11: in production, a dead worker of a topic that stays in topics_tonight
\* is eventually replaced by a running one
C11_RestartOnDeath ==
    \A t \in Topics :
        (t \in TopicsTonight(Datestr) /\ ~Alive(t))
            ~> (Alive(t) \/ t \notin TopicsTonight(Datestr))

\* C11 witness: a worker died at startup, its entry was removed, and the
\* supervisor is about to visit its topic again
C11_Witness ==
    \E t \in Topics :
        /\ pc[t] = "exit_startup"
        /\ t \notin topics_on_watch
        /\ sup_pc = "iter"
        /\ t \in sup_todo

\* C12: at most one live worker per topic: a worker is started only for a topic
\* that is not in topics_on_watch and has no live worker, and every live
\* worker is the one in topics_on_watch
C12_OneWorkerPerTopic ==
    [][\A t \in Topics :
          /\ Spawned(t) => (t \notin topics_on_watch /\ ~Alive(t))
          /\ pc'[t] \notin Ended => t \in topics_on_watch']_vars

\* C12 witness: the worker of one topic is alive while the worker of another
\* has died and has been removed, and the supervisor is about to visit both
C12_Witness ==
    \E t, v \in Topics :
        /\ Alive(t) /\ t \in topics_on_watch
        /\ pc[v] = "exit_none" /\ v \notin topics_on_watch
        /\ sup_pc = "iter"
        /\ {t, v} \subseteq sup_todo

\* C13: every dead worker in topics_on_watch is removed by the supervisor,
\* whether or not its topic is still in the list
C13_DeadWorkerRemoved ==
    \A t \in Topics :
        (t \in topics_on_watch /\ ~Alive(t)) ~> (t \notin topics_on_watch)

\* C14: an entry leaves topics_on_watch only in the health check of its topic
\* and only when its worker is not alive, and no entry is replaced
C14_RemovedOnlyWhenDead ==
    [][\A t \in Topics :
          /\ (t \in topics_on_watch /\ t \notin topics_on_watch')
                 => (~Alive(t) /\ SupVisit(t, FALSE))
          /\ Spawned(t) => t \notin topics_on_watch]_vars

\* C14 witness: the loop has caught an exception, and a worker that died has
\* been removed
C14_Witness ==
    /\ sup_failures > 0
    /\ \E t \in Topics : pc[t] = "exit_none" /\ t \notin topics_on_watch

\* <survey>_<datestr>_programid<suffix>, not on the blocklist
HasForm(name, ds) ==
    /\ Len(Split(name)) >= 3
    /\ Split(name)[1] # <<>>
    /\ Split(name)[2] = <<ds>>
    /\ Split(name)[3] # <<>>
    /\ Split(name)[3][1] = "programid"
    /\ ~In("zuds", name)

\* C16: a worker is started only for a topic of the form
\* <survey>_<datestr>_programid<suffix> that is not on the blocklist, and the
\* worker's datestr is the supervisor's
C16_SpawnedTopicsHaveForm ==
    [][\A t \in Topics :
          Spawned(t) => (HasForm(TopicName(t), datestr) /\ ListenerDatestr(t) = <<datestr>>)]_vars

\* the loop body is left: at its end, or by an exception
PassEnds == SupEndPass \/ SupListRaises \/ \E t \in Topics : SupSpawnRaises(t)

\* C17: in test mode the first pass of the loop ends with every worker in
\* topics_on_watch killed and the supervisor gone, whatever happened in it
C17_TestModeSinglePass ==
    [][(test /\ PassEnds)
          => (sup_pc' = "done" /\ \A t \in topics_on_watch' : pc'[t] \in Ended)]_vars

\* C15: a worker starts, and starts again, at the earliest offset of every
\* partition: a partition not yet assigned to a live worker has nothing
\* consumed under the worker's group id, and a partition is assigned at its
\* beginning
C15_StartsAtEarliest ==
    [][\A t \in Topics : \A p \in Partitions(t) :
          /\ (pc'[t] \notin Ended /\ p \notin assigned'[t]) => offset'[t][p] = 0
          /\ (p \in assigned'[t] /\ p \notin assigned[t]) => offset'[t][p] = 0]_vars

\* C15 witness: a worker started after another had ingested the alert of
\* candid 1 has that alert in hand again, as the first record of the first
\* message of partition 1
C15_Witness ==
    \E t \in Topics :
        /\ pc[t] = "dedupe"
        /\ msg[t] = <<1, 1>>
        /\ idx[t] = 1
        /\ Record(t).candid = 1
        /\ 1 \in ingested
        /\ 2 \notin ingested

\* C18: with posting enabled, a record whose alert is in the primary
\* collection and has not been posted is not passed over by a dedupe query
\* that succeeds: the worker keeps it, to post it
C18_PostedOnReplay ==
    [][\A t \in Topics :
          (/\ post_to_skyportal
           /\ pc[t] = "dedupe"
           /\ NumAlerts(Record(t).candid) > 0
           /\ Record(t).candid \notin portal
           /\ Dedupe(t, FALSE))
              => (msg'[t] = msg[t] /\ idx'[t] = idx[t])]_vars

\* the elements of seq whose aggregation neither raised nor timed out
RECURSIVE NonFailing(_, _)
NonFailing(seq, outcomes) ==
    IF seq = << >> THEN << >>
    ELSE (IF Head(outcomes).status = "ok" THEN <<Head(seq)>> ELSE << >>)
             \o NonFailing(Tail(seq), Tail(outcomes))

\* C19: the map returned for a list of filters is the map returned for its
\* non-failing filters alone, and maps exactly the id of every non-failing
\* filter that returned documents to the first of them
C19_FilterIsolation ==
    call.running =>
        LET fs == call.filter_templates
            outcomes == call.outcomes
            matching == {i \in 1..Len(fs) :
                            outcomes[i].status = "ok" /\ outcomes[i].docs # << >>}
        IN  /\ passed_filters =
                   alert_filter__user_defined(NonFailing(fs, outcomes),
                                              NonFailing(outcomes, outcomes))
            /\ DOMAIN passed_filters = {fs[i]._id : i \in matching}
            /\ \A i \in matching : passed_filters[fs[i]._id] = outcomes[i].docs[1]

\* C19 witness: the first filter timed out and the second is in the map with
\* the first of its two documents
C19_Witness ==
    /\ call.running
    /\ Len(call.filter_templates) = 2
    /\ call.outcomes[1].status = "timeout"
    /\ call.outcomes[2].docs = <<"b", "a">>
    /\ call.filter_templates[2]._id \in DOMAIN passed_filters
    /\ passed_filters[call.filter_templates[2]._id] = "b"

\* the templates of the alert catalog in the collection, of one program
OfProgram(program) ==
    {i \in 1..Len(filters) :
        filters[i].catalog = collection_alerts /\ filters[i].science_program_id = program}

\* C20: a worker that has loaded its filters has, for every program with a
\* template of the alert catalog, exactly one active filter, the one created
\* last among the templates of the program
C20_LatestPerProgram ==
    \A t \in Topics :
        pc[t] = "poll" =>
            \A program \in 1..MaxTemplates :
                OfProgram(program) # {} =>
                    /\ Cardinality({i \in 1..Len(filter_templates[t]) :
                           filter_templates[t][i].science_program_id = program}) = 1
                    /\ \A i \in 1..Len(filter_templates[t]) :
                           filter_templates[t][i].science_program_id = program =>
                               \A j \in OfProgram(program) :
                                   filters[j].created <= filter_templates[t][i].created

\* the primary document of the record that the worker of topic t is on
PrimaryInserted(t) == alerts[alert_mongify(Record(t)).doc] > 0

\* C21: with save_packets, every run of the TESS step on a record of a TESS
\* program whose primary document is in the store leaves the file
\* <candid>.json in the TESS directory, whatever the store and the disk answer
C21_TessFileWritten ==
    [][\A t \in topics :
          (/\ save_packets
           /\ pc[t] = "tess"
           /\ IsTess(Record(t).programpi)
           /\ PrimaryInserted(t)
           /\ \E raises \in BOOLEAN : \E wrote \in BOOLEAN : TessDump(t, raises, wrote))
              => Record(t).candid \in DOMAIN tess_files']_vars

\* C22: the cross_matches of a TESS dump have no entry of the galaxy catalog
\* when the aux document of the object has one, and have every other entry of
\* the aux document unchanged
C22_NoCluInDump ==
    \A c \in DOMAIN tess_files :
        LET o == tess_files[c].objectId
        IN  (o \in DOMAIN aux /\ "cross_matches" \in DOMAIN aux[o]
                 /\ CLU \in DOMAIN aux[o].cross_matches)
                => /\ CLU \notin DOMAIN tess_files[c].cross_matches
                   /\ \A k \in DOMAIN aux[o].cross_matches \ {CLU} :
                          /\ k \in DOMAIN tess_files[c].cross_matches
                          /\ tess_files[c].cross_matches[k] = aux[o].cross_matches[k]

(***************************************************************************)
(* alert_filter__xmatch on its own: every configuration of catalogs, every *)
(* alert, every catalog whose query may raise.                             *)
(***************************************************************************)
\* the longest list of configured catalogs
MaxCatalogs == 3

XmatchCatalogNames == {"cat1", "cat2", "cat3", "cat4"}

\* config['xmatch']['catalogs']: a dict, so no name twice, in file order
CatalogLists ==
    {s \in UNION {[1..n -> XmatchCatalogNames] : n \in 0..MaxCatalogs} :
        \A i, j \in 1..Len(s) : s[i] = s[j] => i = j}

\* everything the worker pipeline and the supervisor own
pipeline_vars == <<config_vars, filter_vars, supervisor_vars, pc, msg, idx, consumer_vars,
                   store_vars, file_vars, portal, okrec, ingested, resources>>

\* the function is called and runs to its return statement; it only reads
CrossMatch(catalogs, alert, failing) ==
    /\ xcall' = [catalogs |-> catalogs, alert |-> alert, failing |-> failing,
                 running |-> TRUE]
    /\ xmatches' = alert_filter__xmatch(catalogs, alert, failing)
    /\ UNCHANGED <<pipeline_vars, web_vars, mcall>>

\* the caller takes the result; the locals of the call are gone
ReturnXmatch ==
    /\ xcall' = NoXcall
    /\ xmatches' = EmptyMap
    /\ UNCHANGED <<pipeline_vars, web_vars, mcall>>

XmatchNext ==
    IF xcall.running
    THEN ReturnXmatch
    ELSE \E catalogs \in CatalogLists : \E alert \in Docs :
             \E failing \in 0..Len(catalogs) : CrossMatch(catalogs, alert, failing)

SpecXmatch == InitFilters /\ [][XmatchNext]_vars

\* C23: when the query of some catalog raises, alert_filter__xmatch returns the
\* empty map: no entry, not even for the catalogs queried before the failure
C23_EmptyOnFailure ==
    (xcall.running /\ xcall.failing \in 1..Len(xcall.catalogs)) => xmatches = EmptyMap

\* C24: prv_candidates is append-only: whatever step is taken, the aux
\* document of every object is still there and its prv_candidates keep every
\* element they had, each in its place
C24_AppendOnly ==
    [][\A o \in DOMAIN aux :
          /\ o \in DOMAIN aux'
          /\ Len(aux'[o].prv_candidates) >= Len(aux[o].prv_candidates)
          /\ \A i \in 1..Len(aux[o].prv_candidates) :
                 aux'[o].prv_candidates[i] = aux[o].prv_candidates[i]]_vars

\* a later alert of an object has added its prior candidate to the one that
\* the aux document was created with
C24_Witness ==
    \E o \in DOMAIN aux :
        /\ Len(aux[o].prv_candidates) = 2
        /\ aux[o].prv_candidates[1] # aux[o].prv_candidates[2]
        /\ \E t \in topics : pc[t] = "tess" /\ Record(t).objectId = o

\* the worker of topic t runs the cross-matches and the insert of the aux document
RunsCrossMatch(t) == pc[t] = "auxinsert" /\ \E ok \in BOOLEAN : AuxInsert(t, ok)

\* the cross_matches of every aux document are, after any step, what they were
CrossMatchesKept ==
    [][\A o \in DOMAIN aux :
          o \in DOMAIN aux' /\ aux'[o].cross_matches = aux[o].cross_matches]_vars

\* C25: once the aux document of an object exists, no step changes its
\* cross_matches, and no worker runs the cross-matches for that object again
C25_CrossMatchesImmutable ==
    [][\A o \in DOMAIN aux :
          /\ o \in DOMAIN aux'
          /\ aux'[o].cross_matches = aux[o].cross_matches
          /\ \A t \in topics :
                 ~(pc[t] = "auxinsert" /\ Record(t).objectId = o /\ RunsCrossMatch(t))]_vars

\* the positions of a worker process that ended by itself
SelfExits == Ended \ {"not_started", "killed"}

\* C26: a worker process that has exited, by whatever path, has closed the
\* broker consumer and the catalog client that it had opened
C26_ResourcesReleased ==
    \A t \in Topics :
        pc[t] \in SelfExits =>
            /\ resources[t].consumer \in {"none", "closed"}
            /\ resources[t].client \in {"none", "closed"}

\* C27: every file <candid>.avro decodes to the record of that candid: the
\* bytes hold a record, and no record of another candid
C27_RoundTrip ==
    \A c \in DOMAIN avro_files :
        LET records == readSchemaData(avro_files[c])
        IN  /\ records # <<>>
            /\ \A i \in 1..Len(records) : records[i].candid = c

\* every file <candid>.avro holds, among its records, one of that candid
SomeRecordOfBasename ==
    \A c \in DOMAIN avro_files :
        \E i \in 1..Len(readSchemaData(avro_files[c])) :
            readSchemaData(avro_files[c])[i].candid = c

(***************************************************************************)
(* The API middlewares (middlewares.py): auth_middleware in front of a     *)
(* handler that is bare, wrapped by auth_required, or by admin_required.   *)
(* A text is a sequence of pieces; a header value is a sequence of words.  *)
(***************************************************************************)
\* the default of admin_required(admin: str = 'admin')
Admin == "admin"

\* str.lower() on a piece of text
Lower(piece) ==
    CASE piece \in {"Bearer", "BeaRer", "bearer"} -> "bearer"
      [] piece = "eyJ" -> "eyj"
      [] OTHER -> piece

\* the tokens a client may send: issued to admin and to alice, one issued to
\* alice whose text happens to spell bearer, one expired, one with a wrong
\* signature, one that is no JWT, and one signed but without user_id
TokAdmin == <<"eyJ", "adm">>

TokAlice == <<"eyJ", "ali">>

TokAliceBearer == <<"eyJ", "BeaRer", "ali">>

TokExpired == <<"eyJ", "exp">>

TokForged == <<"eyJ", "forged">>

TokGarbage == <<"xyz">>

TokNoUser == <<"eyJ", "nouid">>

Tokens == {TokAdmin, TokAlice, TokAliceBearer, TokExpired, TokForged, TokGarbage, TokNoUser}

\* the values of the Authorization header: empty, a token alone, a token
\* after the word Bearer in either case, and the word alone
HeaderValues ==
    {<< >>, << <<"Bearer">> >>, << <<"bearer">> >>}
        \cup {<<tok>> : tok \in Tokens}
        \cup {<< <<scheme>>, tok >> : scheme \in {"Bearer", "bearer"}, tok \in Tokens}

\* the headers of a request: without Authorization, or with one of the values
Headers == {EmptyMap} \cup {[authorization |-> v] : v \in HeaderValues}

\* dict.get(key, default)
Get(d, key, default) == IF key \in DOMAIN d THEN d[key] ELSE default

Routes == {"bare", "auth_required", "admin_required"}

\* jwt.decode(jwt_token, JWT_SECRET, algorithms=[JWT_ALGORITHM]) on the text
\* it is given: the payload, or the exception it raises
jwt_decode(text) ==
    CASE text = <<TokAdmin>> -> [raises |-> None, payload |-> [user_id |-> "admin"]]
      [] text = <<TokAlice>> -> [raises |-> None, payload |-> [user_id |-> "alice"]]
      [] text = <<TokAliceBearer>> -> [raises |-> None, payload |-> [user_id |-> "alice"]]
      [] text = <<TokNoUser>> -> [raises |-> None, payload |-> [exp |-> "later"]]
      [] text = <<TokExpired>> -> [raises |-> "ExpiredSignatureError", payload |-> EmptyMap]
      [] OTHER -> [raises |-> "DecodeError", payload |-> EmptyMap]

\* 'bearer' in deepcopy(jwt_token).lower()
HasBearer(header) ==
    \E w \in 1..Len(header) : \E i \in 1..Len(header[w]) : Lower(header[w][i]) = "bearer"

\* `not request.user`
Falsy(user) == user \in {None, ""}

\* the response of the handler body itself, with the user it saw
Handled(user) == [status |-> 0, by |-> "handler", error |-> None, user |-> user]

Refused(status, by) == [status |-> status, by |-> by, error |-> None, user |-> None]

Unhandled(error) == [status |-> 0, by |-> "nobody", error |-> error, user |-> None]

\* auth_required(func)(request)
auth_required(user) ==
    IF Falsy(user) THEN Refused(401, "wrapper") ELSE Handled(user)

\* the admin test made before the test of authentication
AdminTestFirst(admin, user) ==
    IF user # admin THEN Refused(403, "wrapper")
    ELSE IF Falsy(user) THEN Refused(401, "wrapper")
    ELSE Handled(user)

\* admin_required(admin)(func)(request)
admin_required(admin, user) ==
    IF Falsy(user) THEN Refused(401, "wrapper")
    ELSE IF user # admin THEN Refused(403, "wrapper")
    ELSE Handled(user)

\* a request arrives for one of the routes
Receive(headers, route) ==
    /\ request.stage = "idle"
    /\ request' = [stage |-> "middleware", headers |-> headers, route |-> route,
                   user |-> None]
    /\ response' = NoResponse
    /\ UNCHANGED <<pipeline_vars, xmatch_vars, mcall>>

\* what auth_middleware does up to `await handler(request)`: the request it
\* passes on, or the response or exception that ends it
Authenticate(headers) ==
    IF "authorization" \notin DOMAIN headers \/ Get(headers, "authorization", None) = << >>
    THEN [next |-> TRUE, user |-> None]
    ELSE LET header == headers.authorization
         IN  IF HasBearer(header) /\ Len(header) < 2
             THEN [next |-> FALSE, response |-> Unhandled("IndexError")]
             ELSE LET jwt_token == IF HasBearer(header) THEN <<header[2]>> ELSE header
                      decoded == jwt_decode(jwt_token)
                  IN  IF decoded.raises # None
                      THEN [next |-> FALSE, response |-> Refused(400, "middleware")]
                      ELSE IF "user_id" \notin DOMAIN decoded.payload
                      THEN [next |-> FALSE, response |-> Unhandled("KeyError")]
                      ELSE [next |-> TRUE, user |-> decoded.payload.user_id]

auth_middleware ==
    /\ request.stage = "middleware"
    /\ LET result == Authenticate(request.headers)
       IN  IF result.next
           THEN /\ request' = [request EXCEPT !.stage = "handler", !.user = result.user]
                /\ UNCHANGED response
           ELSE /\ request' = [request EXCEPT !.stage = "done"]
                /\ response' = result.response
    /\ UNCHANGED <<pipeline_vars, xmatch_vars, mcall>>

\* response = await handler(request): the handler of the route, wrapped or not
Handler ==
    /\ request.stage = "handler"
    /\ request' = [request EXCEPT !.stage = "done"]
    /\ response' = CASE request.route = "bare" -> Handled(request.user)
                     [] request.route = "auth_required" -> auth_required(request.user)
                     [] request.route = "admin_required" ->
                            admin_required(Admin, request.user)
    /\ UNCHANGED <<pipeline_vars, xmatch_vars, mcall>>

\* the response is sent; the server waits for the next request
Respond ==
    /\ request.stage = "done"
    /\ request' = NoRequest
    /\ response' = NoResponse
    /\ UNCHANGED <<pipeline_vars, xmatch_vars, mcall>>

WebNext ==
    \/ \E headers \in Headers : \E route \in Routes : Receive(headers, route)
    \/ auth_middleware
    \/ Handler
    \/ Respond

SpecWeb == InitFilters /\ [][WebNext]_vars

\* the token that a header value carries: its last word
TokenOf(header) == <<header[Len(header)]>>

\* the request carries an Authorization header, not empty
HasToken(headers) == "authorization" \in DOMAIN headers /\ headers.authorization # << >>

\* the token of the request does not decode with the secret and the algorithm
InvalidToken(headers) ==
    HasToken(headers) /\ jwt_decode(TokenOf(headers.authorization)).raises # None

\* the token of the request decodes to a payload with a user_id
ValidToken(headers) ==
    /\ HasToken(headers)
    /\ jwt_decode(TokenOf(headers.authorization)).raises = None
    /\ "user_id" \in DOMAIN jwt_decode(TokenOf(headers.authorization)).payload

UserOf(headers) == jwt_decode(TokenOf(headers.authorization)).payload.user_id

\* C28: a request whose Authorization header carries an invalid or expired
\* token, with or without the Bearer prefix, ends with status 400 from the
\* middleware: the handler is not invoked and no error goes unhandled
C28_InvalidTokenRefused ==
    (request.stage = "done" /\ InvalidToken(request.headers))
        => /\ response.status = 400
           /\ response.by = "middleware"
           /\ response.error = None

\* C29: the handler wrapped by auth_required runs only for a request whose
\* valid token gave the user id; without an Authorization header the request
\* ends with 401 and the handler does not run; with a valid token that has a
\* user_id the handler runs and sees that user_id as request.user
C29_AuthRequired ==
    (request.stage = "done" /\ request.route = "auth_required")
        => /\ response.by = "handler"
                => (ValidToken(request.headers) /\ response.user = UserOf(request.headers))
           /\ "authorization" \notin DOMAIN request.headers
                => (response.status = 401 /\ response.by = "wrapper")
           /\ ValidToken(request.headers)
                => (response.by = "handler" /\ response.user = UserOf(request.headers))

\* C30: the handler wrapped by admin_required(admin) runs only when
\* request.user is the admin name; when the wrapper is reached, a request
\* with no user ends with 401 and a request of another user with 403, the
\* handler not run
C30_AdminRequired ==
    (request.stage = "done" /\ request.route = "admin_required")
        => /\ response.by = "handler" => (request.user = Admin /\ response.user = Admin)
           /\ response.by \in {"wrapper", "handler"}
                => /\ Falsy(request.user) => (response.status = 401 /\ response.by = "wrapper")
                   /\ (~Falsy(request.user) /\ request.user # Admin)
                        => (response.status = 403 /\ response.by = "wrapper")

\* alice, with a valid token, is refused by the admin wrapper
C30_Witness ==
    /\ request.stage = "done"
    /\ request.route = "admin_required"
    /\ request.headers = [authorization |-> << <<"Bearer">>, TokAlice >>]
    /\ request.user = "alice"
    /\ response.status = 403
    /\ response.by = "wrapper"

(***************************************************************************)
(* alert_mongify on its own, on every shape of raw alert.                  *)
(***************************************************************************)
\* what the prv_candidates of a raw alert may be: a list, or None
PrvLists ==
    {NoneList, << >>, <<PrvCandidate(9, 1, Null)>>, <<PrvCandidate(9, 2, 7)>>,
     <<PrvCandidate(9, 1, Null), PrvCandidate(8, 2, 7)>>}

\* the raw alerts: with the key prv_candidates, and without it
RawAlerts ==
    {[candid |-> c, objectId |-> o, programpi |-> pi] :
        c \in 1..3, o \in {"A", "B"}, pi \in {"ZTF", "TESS", "Kulkarni"}}
    \cup {[candid |-> c, objectId |-> o, programpi |-> pi, prv_candidates |-> prv] :
             c \in 1..3, o \in {"A", "B"}, pi \in {"ZTF", "TESS", "Kulkarni"},
             prv \in PrvLists}

\* the function is called and runs to its return statement, or raises
Mongify(alert) ==
    /\ mcall' = [running |-> TRUE, alert |-> alert, result |-> alert_mongify(alert)]
    /\ UNCHANGED <<pipeline_vars, xmatch_vars, web_vars>>

\* the caller takes the result; the locals of the call are gone
ReturnMongify ==
    /\ mcall' = NoMcall
    /\ UNCHANGED <<pipeline_vars, xmatch_vars, web_vars>>

MongifyNext ==
    IF mcall.running THEN ReturnMongify ELSE \E alert \in RawAlerts : Mongify(alert)

SpecMongify == InitFilters /\ [][MongifyNext]_vars

\* C31: alert_mongify succeeds on every raw alert and returns a document
\* without the key prv_candidates together with the list of prior candidates:
\* the empty list when prv_candidates is null and when the key is absent, the
\* alert's list otherwise
C31_Normalize ==
    mcall.running =>
        /\ mcall.result.raises = None
        /\ "prv_candidates" \notin DOMAIN mcall.result.doc
        /\ mcall.result.prv_candidates =
               IF "prv_candidates" \notin DOMAIN mcall.alert
                      \/ mcall.alert.prv_candidates = NoneList
               THEN << >>
               ELSE mcall.alert.prv_candidates

\* no document of the primary collection has the key prv_candidates
NoPrvInPrimary == \A d \in Docs : "prv_candidates" \notin DOMAIN d

\* C32: an evaluation leaves the list of filter templates as it was given,
\* every pipeline as prepared at load time, and hands to the store, for every
\* filter, a pipeline whose first stage matches the candid of the alert being
\* evaluated, whatever stood in that place before
C32_TemplatesReadOnly ==
    call.running =>
        /\ call.after = call.filter_templates
        /\ Len(call.executed) = Len(call.filter_templates)
        /\ \A i \in 1..Len(call.executed) :
               /\ call.executed[i][1].match.candid = call.alert.candid
               /\ Tail(call.executed[i]) = Tail(call.filter_templates[i].pipeline)

\* two filters are evaluated on the alert of candid 2, the first prepared with
\* the placeholder and the second with candid 1 in its $match stage
C32_Witness ==
    /\ call.running
    /\ call.alert.candid = 2
    /\ Len(call.filter_templates) = 2
    /\ call.filter_templates[1].pipeline[1].match.candid = Null
    /\ call.filter_templates[2].pipeline[1].match.candid = 1
    /\ call.executed[2][1].match.candid = 2
    /\ call.after[2].pipeline[1].match.candid = 1

\* C33: a worker evaluates the user filters on a record, or posts it to the
\* portal, only while the primary document of the record is in the primary
\* collection and the aux collection has a document for its objectId
C33_StoredBeforeFiltersAndPost ==
    \A t \in topics :
        pc[t] \in {"filters", "post"} =>
            /\ PrimaryInserted(t)
            /\ Record(t).objectId \in DOMAIN aux

====
